---- MODULE Spec2Model ----
(***************************************************************************)
(* chartpaper: the versioned chart catalog (charts / dependencies / apps   *)
(* tables), the fetch-or-update, version-switch and delete handlers, and   *)
(* the two dependency resolvers, as one state machine.  A request handler  *)
(* is one atomic action, except in SpecRacing, where fetch-or-update and   *)
(* the version switch run statement by statement on two workers; the       *)
(* rendering engine (helm template) is an external collaborator whose      *)
(* answer is a nondeterministic choice.  The manifest fact extractor is an *)
(* operator applied to bounded manifests in SpecImages.                    *)
(***************************************************************************)
EXTENDS FiniteSets, Integers, Sequences, TLC

(* ------------------------------ bounds --------------------------------- *)

\* ids handed out by charts.id (SERIAL); CreateChart is not taken beyond it
MaxChartId == 2
\* ids handed out by apps.id (SERIAL); CreateApp is not taken beyond it
MaxAppId == 2
\* lines of a rendered manifest, the "---" lines among them
MaxLines == 4
MaxRegistryId == 3

(* ------------------------------ inputs --------------------------------- *)

Names == {"a", "b", "c"}
Versions == {"1", "2"}

\* A location is the sequence of its "/"-separated segments; the empty
\* sequence is the empty string.
NoURL == <<>>
RepoURL == <<"oci://r">>
ReqURL == <<"oci://u", "chart">>

\* Chart.yaml dependency entries (name, version, repository)
Dep(n, r) == [name |-> n, version |-> "1", repository |-> r]

\* ChartInfo values SafeParseChart returns; meta is the ManifestMetadata
\* pointer, "nil" when the rendered manifest is empty
ChartInfo(n, v, ds, m) == [name |-> n, version |-> v, deps |-> ds, meta |-> m]

\* spec.App lists returned by chartUtils.Parse (only the name is kept)
AppLists == {<<>>, <<"web">>}

\* Requests of the catalog specification: chart a in version 1 with
\* dependency lists that differ, overlap and repeat a name, chart a in
\* version 2, and chart b.
StoreNames == {"a", "b"}
StoreDepLists ==
    {<<>>, <<Dep("b", NoURL)>>, <<Dep("b", RepoURL), Dep("b", NoURL)>>}
StoreInfos ==
    {ChartInfo("a", "1", ds, "nil") : ds \in StoreDepLists}
        \cup {ChartInfo("a", "2", <<>>, "nil"), ChartInfo("b", "1", <<Dep("a", NoURL)>>, "nil")}

\* Requests of the switch specification: chart a in both versions.
SwitchInfos == {ChartInfo("a", v, <<>>, "nil") : v \in Versions}

\* Requests of the resolver specification: a parent with two edges and
\* the charts the registries may answer for a candidate location.
ParentInfos ==
    {ChartInfo("a", "1", ds, "nil") : ds \in {<<Dep("b", RepoURL), Dep("c", NoURL)>>, <<Dep("b", NoURL)>>}}
        \cup {ChartInfo("b", "1", <<>>, "nil")}
Answers == {ChartInfo(n, "1", <<>>, "nil") : n \in {"b", "c"}}

\* what the registries answer for a dependency whose chart depends on the
\* chart that depends on it (a cycle) and on a third chart, with
\* repositories, or on none
WalkAnswers ==
    {ChartInfo("b", "1", <<Dep("a", RepoURL), Dep("c", RepoURL)>>, "nil"),
     ChartInfo("c", "1", <<>>, "nil")}

\* charts whose dependency entries carry a repository (tags are fetched for
\* them), carry none, or repeat a dependency name
EnrichDepLists ==
    {<<>>,
     <<Dep("b", RepoURL), Dep("c", NoURL)>>,
     <<Dep("b", RepoURL), Dep("c", RepoURL), Dep("b", NoURL)>>}
EnrichInfos == {ChartInfo("a", "1", ds, "nil") : ds \in EnrichDepLists}

\* charts of two names, each depending on the other, one in two versions
FrameInfos ==
    {ChartInfo("a", "1", <<Dep("b", NoURL)>>, "nil"), ChartInfo("a", "2", <<>>, "nil"),
     ChartInfo("b", "1", <<Dep("a", NoURL)>>, "nil")}

\* the ManifestMetadata of a chart: none ("nil", the manifest was empty) or
\* one of two different sets of facts
Metadatas == {"nil", "paths /v1", "paths /v2"}
FactInfos == {ChartInfo(n, v, <<>>, m) : n \in {"a"}, v \in Versions, m \in Metadatas}

(* ------------------------------- state --------------------------------- *)

VARIABLES
    charts,        \* rows of table charts
    dependencies,  \* rows of table dependencies
    apps,          \* rows of table apps
    chartSeq,      \* next value of charts.id
    appSeq,        \* next value of apps.id
    resp,          \* the last request: handler, arguments, response, log
    inflight,      \* per worker, the request it is in the middle of
    registry_configs,  \* rows of table registry_configs
    registrySeq        \* next value of registry_configs.id

vars == <<charts, dependencies, apps, chartSeq, appSeq, resp, inflight,
          registry_configs, registrySeq>>

\* the database as one value, threaded through the queries
DB == [charts |-> charts, dependencies |-> dependencies, apps |-> apps,
       chartSeq |-> chartSeq, appSeq |-> appSeq]

(* ------------------------------ queries -------------------------------- *)

\* SELECT * FROM charts WHERE name = ? AND is_latest = TRUE LIMIT 1
\* (the rows LIMIT 1 may pick from; empty = sql.ErrNoRows)
GetChart(d, name) == {c \in d.charts : c.name = name /\ c.is_latest}

\* SELECT d.* FROM dependencies d JOIN charts c ... WHERE d.chart_id = ?
GetChartDependencies(d, id) ==
    {e \in d.dependencies : e.chart_id = id /\ \E c \in d.charts : c.id = id}

\* SELECT ... FROM dependencies d JOIN charts c WHERE c.name = ? AND c.is_latest
FetchChartDependencies(d, name) ==
    {e \in d.dependencies : \E c \in d.charts : c.id = e.chart_id /\ c.name = name /\ c.is_latest}

\* UNIQUE(name, version) of table charts
CreateChartConflict(d, name, version) ==
    \E c \in d.charts : c.name = name /\ c.version = version

\* INSERT INTO charts (...) RETURNING *, is_latest = TRUE; the manifest
\* metadata columns are written by the UPDATE that follows the insert.
CreateChart(d, info, url) ==
    LET row == [id |-> d.chartSeq, name |-> info.name, version |-> info.version,
                chart_url |-> url, is_latest |-> TRUE, meta |-> "nil"]
    IN  [d EXCEPT !.charts = @ \cup {row}, !.chartSeq = @ + 1]

\* pkg.UpdateChartManifestMetadata: UPDATE charts SET ingress_paths,
\* container_images, service_ports ... WHERE id = $4
UpdateChartManifestMetadata(d, id, metadata) ==
    [d EXCEPT !.charts = {IF c.id = id THEN [c EXCEPT !.meta = metadata] ELSE c : c \in @}]

\* SetLatestVersion that clears the oldest row of the name only (LIMIT 1)
SetLatestVersionOldestRow(d, name) ==
    [d EXCEPT !.charts =
        {IF c.name = name /\ (\A o \in @ : o.name = name => c.id <= o.id)
         THEN [c EXCEPT !.is_latest = FALSE] ELSE c : c \in @}]

\* UPDATE charts SET is_latest = FALSE WHERE name = ?
SetLatestVersion(d, name) ==
    [d EXCEPT !.charts = {IF c.name = name THEN [c EXCEPT !.is_latest = FALSE] ELSE c : c \in @}]

\* UPDATE charts SET is_latest = TRUE WHERE name = ? AND version = ?
SetVersionAsLatest(d, name, version) ==
    [d EXCEPT !.charts = {IF c.name = name /\ c.version = version
                          THEN [c EXCEPT !.is_latest = TRUE] ELSE c : c \in @}]

\* Cascade with the foreign key of apps missing
CascadeDependenciesOnly(d, gone) ==
    [d EXCEPT !.charts = @ \ gone,
              !.dependencies = {e \in @ : \A c \in gone : e.chart_id # c.id}]

\* Cascade of a store that does not follow the foreign keys
CascadeChartsOnly(d, gone) == [d EXCEPT !.charts = @ \ gone]

\* FOREIGN KEY (chart_id) REFERENCES charts (id) ON DELETE CASCADE, on
\* dependencies and on apps: children of the rows in gone go with them.
Cascade(d, gone) ==
    [d EXCEPT !.charts = @ \ gone,
              !.dependencies = {e \in @ : \A c \in gone : e.chart_id # c.id},
              !.apps = {p \in @ : \A c \in gone : p.chart_id # c.id}]

\* DeleteChart that also removes the edges of other charts that name the
\* deleted chart
DeleteChartAndItsUses(d, name) ==
    LET left == Cascade(d, {c \in d.charts : c.name = name})
    IN  [left EXCEPT !.dependencies = {e \in @ : e.dependency_name # name}]

\* DELETE FROM charts WHERE name = ?
DeleteChart(d, name) == Cascade(d, {c \in d.charts : c.name = name})

\* DeleteChartVersion that makes the newest row left the current one
DeleteChartVersionPromoting(d, name, version) ==
    LET left == Cascade(d, {c \in d.charts : c.name = name /\ c.version = version})
        rest == {c \in left.charts : c.name = name}
    IN  [left EXCEPT !.charts =
            {IF c \in rest /\ (\A o \in rest : o.id <= c.id)
             THEN [c EXCEPT !.is_latest = TRUE] ELSE c : c \in @}]

\* DELETE FROM charts WHERE name = ? AND version = ?
DeleteChartVersion(d, name, version) ==
    Cascade(d, {c \in d.charts : c.name = name /\ c.version = version})

\* DeleteChartDependencies that removes nothing
DeleteChartDependenciesSkipped(d, id) == d

\* DELETE FROM dependencies WHERE chart_id = ?
DeleteChartDependencies(d, id) ==
    [d EXCEPT !.dependencies = {e \in @ : e.chart_id # id}]

\* INSERT INTO dependencies (...); UNIQUE(chart_id, dependency_name) makes
\* the insert fail, and the caller logs the failure and goes on.
CreateDependency(d, id, dep) ==
    IF \E e \in d.dependencies : e.chart_id = id /\ e.dependency_name = dep.name
    THEN d
    ELSE [d EXCEPT !.dependencies = @ \cup
             {[chart_id |-> id, dependency_name |-> dep.name,
               dependency_version |-> dep.version, repository |-> dep.repository]}]

\* INSERT INTO apps (...) RETURNING *
CreateApp(d, id, app) ==
    [d EXCEPT !.apps = @ \cup {[id |-> d.appSeq, chart_id |-> id, name |-> app]},
              !.appSeq = @ + 1]

(* ------------------------- fetch-or-update ----------------------------- *)

\* How the TryFetchChart of the dependency loop ends for each entry of a
\* list: "skipped" when the entry has no repository, else "fetched" or
\* "failed".
Enrichments(deps) ==
    {t \in [1..Len(deps) -> {"skipped", "fetched", "failed"}] :
        \A i \in 1..Len(deps) : (t[i] = "skipped") <=> (deps[i].repository = NoURL)}

\* StoreDependency that gives up the entry whose tags could not be fetched
StoreDependencyUnlessFailed(d, id, dep, tag) ==
    IF tag = "failed" THEN d ELSE CreateDependency(d, id, dep)

\* one round of the "Store dependencies" loop: the tags TryFetchChart
\* answered, or its error, go to local variables and the log only, and the
\* entry is inserted whatever they are
StoreDependency(d, id, dep, tag) == CreateDependency(d, id, dep)

\* the "Store dependencies" loop of storeChartInDB, entries i..Len(deps)
RECURSIVE StoreDependencies(_, _, _, _, _)
StoreDependencies(d, id, deps, tags, i) ==
    IF i > Len(deps) THEN d
    ELSE StoreDependencies(StoreDependency(d, id, deps[i], tags[i]), id, deps, tags, i + 1)

\* the "Store apps" loop of storeChartInDB, entries i..Len(as)
RECURSIVE StoreApps(_, _, _, _)
StoreApps(d, id, as, i) ==
    IF i > Len(as) THEN d
    ELSE StoreApps(CreateApp(d, id, as[i]), id, as, i + 1)

\* TryFetchChart calls made by the dependency loop to learn a dependency's
\* tags: one for each entry with a non-empty repository; the answer is
\* only logged.
\* EnrichmentCalls of a loop that asks a second time for every entry
EnrichmentCallsAskingTwice(deps) ==
    2 * Cardinality({i \in 1..Len(deps) : deps[i].repository # NoURL})

EnrichmentCalls(deps) == Cardinality({i \in 1..Len(deps) : deps[i].repository # NoURL})

\* StoreExisting that also writes the fetched version onto the row (UpdateChart)
StoreExistingUpdatingVersion(d, existing, info, as, tags) ==
    LET updated == [d EXCEPT !.charts = (@ \ {existing})
                                 \cup {[existing EXCEPT !.version = info.version]}]
    IN  StoreApps(StoreDependencies(DeleteChartDependencies(updated, existing.id),
                                    existing.id, info.deps, tags, 1),
                  existing.id, as, 1)

\* the branch of storeChartInDB taken when GetChart found existing
StoreExisting(d, existing, info, as, tags) ==
    StoreApps(StoreDependencies(DeleteChartDependencies(d, existing.id),
                                existing.id, info.deps, tags, 1),
              existing.id, as, 1)

\* the branch of storeChartInDB taken when GetChart found no row and the
\* insert went through
StoreNew(d, info, as, url, tags) ==
    LET created == CreateChart(d, info, url)
        described == IF info.meta # "nil"
                     THEN UpdateChartManifestMetadata(created, d.chartSeq, info.meta)
                     ELSE created
    IN  StoreApps(StoreDependencies(described, d.chartSeq, info.deps, tags, 1),
                  d.chartSeq, as, 1)

\* the inserts of a call stay within the bounds of the model
WithinBounds(d, newChart, as) ==
    /\ newChart => d.chartSeq <= MaxChartId
    /\ d.appSeq + Len(as) - 1 <= MaxAppId

\* storeChartInDB / pkg.StoreChartInDB: the outcomes of one call.  ok = FALSE
\* is "return nil, err"; reused is the log line "Using existing chart";
\* cleared is the set of rows DeleteChartDependencies removed; tags is how
\* the TryFetchChart of each dependency entry ended.
StoreChartInDB(d, info, as, url) ==
    IF GetChart(d, info.name) = {}
    THEN IF CreateChartConflict(d, info.name, info.version)
         THEN {[ok |-> FALSE, db |-> d, id |-> 0, reused |-> FALSE, cleared |-> {},
                tags |-> <<>>, calls |-> 0]}
         ELSE {[ok |-> TRUE, db |-> StoreNew(d, info, as, url, tags), id |-> d.chartSeq,
                reused |-> FALSE, cleared |-> {}, tags |-> tags,
                calls |-> EnrichmentCalls(info.deps)] :
                   tags \in {t \in Enrichments(info.deps) : WithinBounds(d, TRUE, as)}}
    ELSE {[ok |-> TRUE, db |-> StoreExisting(d, x[1], info, as, x[2]), id |-> x[1].id,
           reused |-> TRUE, cleared |-> GetChartDependencies(d, x[1].id), tags |-> x[2],
           calls |-> EnrichmentCalls(info.deps)] :
              x \in {c \in GetChart(d, info.name) : WithinBounds(d, FALSE, as)}
                        \X Enrichments(info.deps)}

Commit(d) ==
    /\ charts' = d.charts
    /\ dependencies' = d.dependencies
    /\ apps' = d.apps
    /\ chartSeq' = d.chartSeq
    /\ appSeq' = d.appSeq

\* a handler modelled as one step runs from its first statement to its
\* response with no statement of another request in between: the worker
\* serving it is in the middle of nothing before and after
Served == UNCHANGED <<inflight, registry_configs, registrySeq>>

\* the ways chartUtils.Template ends for which SafeParseChart returns an
\* error: it returned one, it panicked (recovered), it returned a nil release
RenderFailures == {"error", "panic", "nil"}

\* fetchChart that goes on to the store with the zero ChartInfo when
\* SafeParseChart returned an error
FetchChartFailedStoring ==
    \E r \in RenderFailures :
        \E s \in StoreChartInDB(DB, ChartInfo("", "", <<>>, "nil"), <<>>, ReqURL) :
            /\ Commit(s.db)
            /\ Served
            /\ resp' = [op |-> "fetchChart", status |-> 400, render |-> r]

\* POST /fetch-chart when SafeParseChart returns an error: 400, nothing written
FetchChartFailed ==
    \E r \in RenderFailures :
        /\ Served
        /\ resp' = [op |-> "fetchChart", status |-> 400, render |-> r]
        /\ UNCHANGED <<charts, dependencies, apps, chartSeq, appSeq>>

\* POST /fetch-chart when SafeParseChart returns info and as
FetchChartParsed(infos) ==
    \E info \in infos, as \in AppLists :
        \E s \in StoreChartInDB(DB, info, as, ReqURL) :
            /\ Commit(s.db)
            /\ Served
            /\ resp' = [op |-> "fetchChart", status |-> 200, chart |-> info, apps |-> as,
                        stored |-> s.ok, chart_id |-> s.id, reused |-> s.reused,
                        cleared |-> s.cleared, tags |-> s.tags, calls |-> 1 + s.calls]

fetchChart(infos) == FetchChartFailed \/ FetchChartParsed(infos)

(* --------------------- switch and delete handlers ---------------------- *)

\* the statement of switchChartVersion that returns an error, if any
SwitchFailures == {"none", "SetLatestVersion", "SetVersionAsLatest"}
NoFailure == {"none"}

\* switchChartVersion with its two UPDATEs in the other order
switchChartVersionSetThenClear(names, failures) ==
    \E name \in names, version \in Versions, failure \in failures :
        LET set == SetVersionAsLatest(DB, name, version)
        IN  /\ Commit(CASE failure = "SetVersionAsLatest" -> DB
                        [] failure = "SetLatestVersion" -> set
                        [] OTHER -> SetLatestVersion(set, name))
            /\ Served
            /\ resp' = [op |-> "switchChartVersion",
                        status |-> IF failure = "none" THEN 200 ELSE 500,
                        name |-> name, version |-> version, failed |-> failure,
                        before |-> {c \in charts : c.name = name}]

\* switchChartVersion with its two UPDATEs in one transaction that is
\* rolled back when either fails
switchChartVersionRollingBack(names, failures) ==
    \E name \in names, version \in Versions, failure \in failures :
        /\ Commit(IF failure # "none" THEN DB
                  ELSE SetVersionAsLatest(SetLatestVersion(DB, name), name, version))
        /\ Served
        /\ resp' = [op |-> "switchChartVersion",
                    status |-> IF failure = "none" THEN 200 ELSE 500,
                    name |-> name, version |-> version, failed |-> failure,
                    before |-> {c \in charts : c.name = name}]

\* POST /charts/:name/switch-version; before is the set of rows of the name
\* as the first UPDATE found them.  An UPDATE that returns an error ends
\* the request with 500 and what ran before it stays written.
switchChartVersion(names, failures) ==
    \E name \in names, version \in Versions, failure \in failures :
        LET cleared == SetLatestVersion(DB, name)
        IN  /\ Commit(CASE failure = "SetLatestVersion" -> DB
                        [] failure = "SetVersionAsLatest" -> cleared
                        [] OTHER -> SetVersionAsLatest(cleared, name, version))
            /\ Served
            /\ resp' = [op |-> "switchChartVersion",
                        status |-> IF failure = "none" THEN 200 ELSE 500,
                        name |-> name, version |-> version, failed |-> failure,
                        before |-> {c \in charts : c.name = name}]

\* the rows of dependencies and apps that go with the chart rows in gone
Children(gone) ==
    {e \in dependencies : \E c \in gone : e.chart_id = c.id}
        \cup {p \in apps : \E c \in gone : p.chart_id = c.id}

\* DELETE /charts/:name; gone is the set of rows the DELETE removed and
\* cascaded the number of rows the foreign keys removed with them
deleteChart(names) ==
    \E name \in names :
        LET gone == {c \in charts : c.name = name}
        IN  /\ Commit(DeleteChart(DB, name))
            /\ Served
            /\ resp' = [op |-> "deleteChart", status |-> 200, name |-> name,
                        gone |-> gone, cascaded |-> Cardinality(Children(gone))]

\* DELETE /charts/:name/versions/:version; gone and cascaded as for deleteChart
deleteChartVersion(names) ==
    \E name \in names, version \in Versions :
        LET gone == {c \in charts : c.name = name /\ c.version = version}
        IN  /\ Commit(DeleteChartVersion(DB, name, version))
            /\ Served
            /\ resp' = [op |-> "deleteChartVersion", status |-> 200, name |-> name,
                        version |-> version, gone |-> gone,
                        cascaded |-> Cardinality(Children(gone))]

(* ------------------------ dependency resolvers ------------------------- *)

\* the orders in which a SELECT without ORDER BY may return the rows of S
Orders(S) ==
    {s \in [1..Cardinality(S) -> S] : \A i, j \in 1..Cardinality(S) : s[i] = s[j] => i = j}

Bitnami(n) == <<"oci://registry-1.docker.io", "bitnamicharts", n>>
K8s(n) == <<"oci://registry.k8s.io", n, n>>
Ghcr(n) == <<"oci://ghcr.io", "helm", n>>

\* registries of fetchChartDependenciesAdvanced: the edge's repository, when
\* it has one, before the three templates
AdvancedRegistries(e) ==
    (IF e.repository # NoURL THEN <<e.repository>> ELSE <<>>)
        \o <<Bitnami(e.dependency_name), K8s(e.dependency_name), Ghcr(e.dependency_name)>>

\* registries of fetchChartDependencies
SimpleRegistries(e) == <<Bitnami(e.dependency_name), K8s(e.dependency_name)>>

\* what the loop body notes about one edge: known = some row of the name is
\* stored (current or not) when the edge is reached; tried = the locations
\* handed to TryFetchChart, in order; url = the location handed to the
\* store; how it ended; hint = the edge's repository column; hit = the
\* position in tried of the first location TryFetchChart answered, 0 when
\* none did
Entry(d, e, tried, hit, url, outcome) ==
    [dep |-> e.dependency_name, known |-> \E c \in d.charts : c.name = e.dependency_name,
     hint |-> e.repository, tried |-> tried, hit |-> hit, url |-> url, outcome |-> outcome]

\* one iteration of the loop of fetchChartDependenciesAdvanced
AdvancedEdge(d, e, answers) ==
    LET regs == AdvancedRegistries(e)
    IN  IF GetChart(d, e.dependency_name) # {}
        THEN {[db |-> d, entry |-> Entry(d, e, <<>>, 0, NoURL, "exists"),
               fetched |-> <<>>, errors |-> <<>>, calls |-> 0]}
        ELSE {[db |-> d, entry |-> Entry(d, e, regs, 0, NoURL, "exhausted"),
               fetched |-> <<>>, errors |-> <<[kind |-> "fetch", dep |-> e.dependency_name]>>,
               calls |-> Len(regs)]}
             \cup
             {[db |-> s.db,
               entry |-> Entry(d, e, SubSeq(regs, 1, k), k, regs[1],
                               IF s.ok THEN "stored" ELSE "storeFailed"),
               fetched |-> IF s.ok THEN <<info>> ELSE <<>>,
               errors |-> IF s.ok THEN <<>> ELSE <<[kind |-> "store", dep |-> e.dependency_name]>>,
               calls |-> k + s.calls] :
                  <<k, info, s>> \in
                      UNION {{<<k, info, s>> : s \in StoreChartInDB(d, info, <<>>, regs[1])} :
                                 k \in 1..Len(regs), info \in answers}}

\* the inner loop of fetchChartDependencies from registry k on; hit is the
\* first registry that answered so far (0 = none), calls what the earlier
\* registries cost
RECURSIVE SimpleTry(_, _, _, _, _, _)
SimpleTry(d, e, k, hit, calls, answers) ==
    LET regs == SimpleRegistries(e)
    IN  IF k > Len(regs)
        THEN {[db |-> d,
               entry |-> Entry(d, e, regs, hit, NoURL, IF hit # 0 THEN "storeFailed" ELSE "exhausted"),
               fetched |-> <<>>, errors |-> <<>>, calls |-> calls]}
        ELSE SimpleTry(d, e, k + 1, hit, calls + 1, answers)
             \cup
             UNION {UNION {IF s.ok
                           THEN {[db |-> s.db,
                                  entry |-> Entry(d, e, SubSeq(regs, 1, k), IF hit # 0 THEN hit ELSE k, regs[k], "stored"),
                                  fetched |-> <<info>>, errors |-> <<>>,
                                  calls |-> calls + 1 + s.calls]}
                           ELSE SimpleTry(d, e, k + 1, IF hit # 0 THEN hit ELSE k, calls + 1, answers) :
                              s \in StoreChartInDB(d, info, <<>>, regs[k])} :
                       info \in answers}

\* one iteration of the loop of fetchChartDependencies
SimpleEdge(d, e, answers) ==
    IF GetChart(d, e.dependency_name) # {}
    THEN {[db |-> d, entry |-> Entry(d, e, <<>>, 0, NoURL, "exists"),
           fetched |-> <<>>, errors |-> <<>>, calls |-> 0]}
    ELSE SimpleTry(d, e, 1, 0, 0, answers)

\* the edge loop of a resolver from edge i on; acc is what edges 1..i-1 left
RECURSIVE ResolveFrom(_, _, _, _, _)
ResolveFrom(acc, edges, i, advanced, answers) ==
    IF i > Len(edges) THEN {acc}
    ELSE UNION {ResolveFrom([db |-> o.db,
                             trace |-> Append(acc.trace, o.entry),
                             fetched |-> acc.fetched \o o.fetched,
                             errors |-> acc.errors \o o.errors,
                             calls |-> acc.calls + o.calls],
                            edges, i + 1, advanced, answers) :
                   o \in IF advanced THEN AdvancedEdge(acc.db, edges[i], answers)
                                     ELSE SimpleEdge(acc.db, edges[i], answers)}

Resolve(op, name, edgeSet, advanced, answers) ==
    \E edges \in Orders(edgeSet) :
        \E r \in ResolveFrom([db |-> DB, trace |-> <<>>, fetched |-> <<>>, errors |-> <<>>,
                              calls |-> 0], edges, 1, advanced, answers) :
            /\ Commit(r.db)
            /\ Served
            /\ resp' = [op |-> op, status |-> 200, name |-> name,
                        total_dependencies |-> Len(edges), fetched_charts |-> r.fetched,
                        errors |-> r.errors, trace |-> r.trace, calls |-> r.calls]

ChartNotFound(op, name) ==
    /\ Served
    /\ resp' = [op |-> op, status |-> 404, name |-> name]
    /\ UNCHANGED <<charts, dependencies, apps, chartSeq, appSeq>>

\* POST /charts/:name/fetch-dependencies of the sqlite server
fetchChartDependenciesAdvanced(names, answers) ==
    \E name \in names :
        IF GetChart(DB, name) = {}
        THEN ChartNotFound("fetchChartDependenciesAdvanced", name)
        ELSE Resolve("fetchChartDependenciesAdvanced", name,
                     FetchChartDependencies(DB, name), TRUE, answers)

\* POST /charts/:name/fetch-dependencies of the postgres server
fetchChartDependencies(names, answers) ==
    \E name \in names :
        IF GetChart(DB, name) = {}
        THEN ChartNotFound("fetchChartDependencies", name)
        ELSE \E chart \in GetChart(DB, name) :
                 Resolve("fetchChartDependencies", name,
                         GetChartDependencies(DB, chart.id), FALSE, answers)

(* --------------------------- manifest facts ---------------------------- *)

\* A manifest is the sequence of its lines.  A line is the boundary "---" or
\* "key: value": value is the text after the first colon as its
\* ':'-separated parts (<<>> = nothing after the colon), quoted tells
\* whether that text stands in quote characters.
Line(k, v, q) == [key |-> k, value |-> v, quoted |-> q]
Boundary == Line("---", <<>>, FALSE)

\* the manifests of at most MaxLines lines over the set lines
ManifestsOver(lines) == UNION {[1..n -> lines] : n \in 0..MaxLines}

\* lines about container images: one reference bare and quoted, one without
\* a tag, one with a canary tag, an empty one, and an imagePullPolicy line
ImageLines ==
    {Boundary,
     Line("image", <<"nginx", "1">>, FALSE), Line("image", <<"nginx", "1">>, TRUE),
     Line("image", <<"nginx">>, FALSE), Line("image", <<>>, FALSE),
     Line("image", <<"app", "RC-Canary">>, FALSE),
     Line("imagePullPolicy", <<"Always">>, FALSE)}

\* lines naming images with different tags, with a tag marking a canary in
\* two spellings, with no tag, and with the tag that reads "N/A"
TagLines ==
    {Boundary,
     Line("image", <<"nginx", "1">>, FALSE), Line("image", <<"nginx", "2">>, FALSE),
     Line("image", <<"nginx">>, FALSE),
     Line("image", <<"app", "RC-Canary">>, FALSE), Line("image", <<"app", "canary">>, FALSE),
     Line("image", <<"app", "N/A">>, FALSE)}

\* lines of resources with a kind, a spec, paths and ports; a kind in
\* quotes, the path "/" and a path without a value among them
GateLines ==
    {Boundary,
     Line("kind", <<"Ingress">>, FALSE), Line("kind", <<"Ingress">>, TRUE),
     Line("kind", <<"Service">>, FALSE),
     Line("spec", <<>>, FALSE),
     Line("path", <<"/api">>, FALSE), Line("path", <<"/">>, TRUE), Line("path", <<>>, FALSE),
     Line("port", <<"80">>, FALSE)}

\* strings.ToLower on the tags in use
ToLower(tag) == IF tag = "RC-Canary" THEN "rc-canary" ELSE tag
\* strings.Contains(tag, "canary") on the tags in use
ContainsCanary(tag) == tag \in {"canary", "rc-canary"}

\* parts[1] of strings.Split(line, ":")
FirstPart(value) == IF value = <<>> THEN "" ELSE value[1]

\* strings.Split(manifest, "---")
RECURSIVE SplitResources(_)
SplitResources(manifest) ==
    IF \A i \in 1..Len(manifest) : manifest[i] # Boundary THEN <<manifest>>
    ELSE LET i == CHOOSE k \in 1..Len(manifest) :
                      manifest[k] = Boundary /\ \A j \in 1..(k - 1) : manifest[j] # Boundary
         IN  <<SubSeq(manifest, 1, i - 1)>> \o SplitResources(SubSeq(manifest, i + 1, Len(manifest)))

NoMetadata ==
    [ImageTag |-> "N/A", CanaryTag |-> "N/A", ContainerImages |-> <<>>,
     IngressPaths |-> <<>>, ServicePorts |-> <<>>]

\* AppendImage that leaves out the search for an equal entry
AppendImageUnchecked(images, imageRef) ==
    IF imageRef # <<>> THEN Append(images, imageRef) ELSE images

\* the found loop and the append: imageRef joins the list when it is not
\* empty and no entry equals it
AppendImage(images, imageRef) ==
    IF (\A i \in 1..Len(images) : images[i] # imageRef) /\ imageRef # <<>>
    THEN Append(images, imageRef) ELSE images

\* ScanImage in which every tag replaces the one before
ScanImageLastWins(metadata, imageRef) ==
    LET listed == [metadata EXCEPT !.ContainerImages = AppendImage(@, imageRef)]
        tag == imageRef[Len(imageRef)]
    IN  IF Len(imageRef) >= 2
        THEN [listed EXCEPT
                 !.ImageTag = tag,
                 !.CanaryTag = IF ContainsCanary(ToLower(tag)) THEN tag ELSE @]
        ELSE listed

\* the image: branch; imageRef is the value with its quotes trimmed
ScanImage(metadata, imageRef) ==
    LET listed == [metadata EXCEPT !.ContainerImages = AppendImage(@, imageRef)]
        tag == imageRef[Len(imageRef)]
    IN  IF Len(imageRef) >= 2
        THEN [listed EXCEPT
                 !.ImageTag = IF @ = "N/A" THEN tag ELSE @,
                 !.CanaryTag = IF ContainsCanary(ToLower(tag)) /\ @ = "N/A" THEN tag ELSE @]
        ELSE listed

\* the body of the loop over the lines of one resource; st holds metadata
\* and the flags currentKind, inSpec, inIngress, inService.  currentKind
\* keeps the quotes of its line, the other values lose them.
ScanLine(st, line) ==
    LET kind == [text |-> FirstPart(line.value), quoted |-> line.quoted]
        s1 == IF line.key = "kind"
              THEN [st EXCEPT !.currentKind = kind,
                              !.inIngress = (kind = [text |-> "Ingress", quoted |-> FALSE]),
                              !.inService = (kind = [text |-> "Service", quoted |-> FALSE])]
              ELSE st
        s2 == IF line.key = "spec" THEN [s1 EXCEPT !.inSpec = TRUE] ELSE s1
        s3 == IF line.key = "image"
              THEN [s2 EXCEPT !.metadata = ScanImage(@, line.value)] ELSE s2
        s4 == IF s3.inIngress /\ line.key = "path" /\ FirstPart(line.value) \notin {"", "/"}
              THEN [s3 EXCEPT !.metadata.IngressPaths = Append(@, FirstPart(line.value))] ELSE s3
    IN  IF s4.inService /\ s4.inSpec /\ line.key = "port" /\ FirstPart(line.value) # ""
        THEN [s4 EXCEPT !.metadata.ServicePorts = Append(@, FirstPart(line.value))] ELSE s4

RECURSIVE ScanLines(_, _, _)
ScanLines(st, lines, i) ==
    IF i > Len(lines) THEN st ELSE ScanLines(ScanLine(st, lines[i]), lines, i + 1)

\* StartResource that lets the flags of the resource before stand
StartResourceKeepingFlags(st) == st

\* "var currentKind string; var inSpec, inIngress, inService bool" at the
\* head of the loop over the resources: the flags start afresh, metadata
\* goes on
StartResource(st) ==
    [metadata |-> st.metadata,
     currentKind |-> [text |-> "", quoted |-> FALSE],
     inSpec |-> FALSE, inIngress |-> FALSE, inService |-> FALSE]

\* the loop over the resources; an empty resource is skipped, which leaves
\* nothing behind as the next one starts afresh
RECURSIVE ScanResources(_, _, _)
ScanResources(st, resources, j) ==
    IF j > Len(resources) THEN st
    ELSE ScanResources(ScanLines(StartResource(st), resources[j], 1), resources, j + 1)

extractManifestMetadata(manifest) ==
    ScanResources([metadata |-> NoMetadata,
                   currentKind |-> [text |-> "", quoted |-> FALSE],
                   inSpec |-> FALSE, inIngress |-> FALSE, inService |-> FALSE],
                  SplitResources(manifest), 1).metadata

\* SafeParseChart from the release on: the metadata of a non-empty manifest
\* is attached to the chart info, an empty manifest leaves the pointer nil
\* (attached = FALSE)
AttachManifestMetadata ==
    /\ resp.op = "Template"
    /\ Served
    /\ resp' = [op |-> "SafeParseChart", manifest |-> resp.manifest,
                attached |-> resp.manifest # <<>>,
                ManifestMetadata |-> IF resp.manifest # <<>>
                                     THEN extractManifestMetadata(resp.manifest)
                                     ELSE NoMetadata]
    /\ UNCHANGED <<charts, dependencies, apps, chartSeq, appSeq>>

(* ------------------------ registry configs ------------------------------ *)

\* names of registry configs; name is UNIQUE
RegistryNames == {"docker-hub", "ghcr", "quay"}
\* ids a request can carry, ids of no row among them
RegistryIds == 1..MaxRegistryId

\* INSERT INTO registry_configs (name, registry_url, is_default) VALUES
\* ('docker-hub', 'https://registry-1.docker.io', TRUE) of the migration
SeedConfigs == {[id |-> 1, name |-> "docker-hub", is_default |-> TRUE]}

\* UPDATE registry_configs SET is_default = FALSE
ClearDefaults(configs) == {[r EXCEPT !.is_default = FALSE] : r \in configs}

\* ClearOtherDefaults that clears nothing
ClearOtherDefaultsSkipped(configs, id) == configs

\* UPDATE registry_configs SET is_default = FALSE WHERE id != $1
ClearOtherDefaults(configs, id) ==
    {IF r.id # id THEN [r EXCEPT !.is_default = FALSE] ELSE r : r \in configs}

\* a registry request leaves the catalog and the requests in flight alone
RegistryServed == UNCHANGED <<charts, dependencies, apps, chartSeq, appSeq, inflight>>

\* POST /registry-configs: 400 when the body does not bind; the defaults
\* are cleared before the insert when the new config is the default, and
\* stay cleared when the insert fails on UNIQUE(name)
createRegistryConfig ==
    \/ /\ RegistryServed
       /\ resp' = [op |-> "createRegistryConfig", status |-> 400, id |-> 0,
                   before |-> registry_configs]
       /\ UNCHANGED <<registry_configs, registrySeq>>
    \/ \E name \in RegistryNames, isDefault \in BOOLEAN :
           LET cleared == IF isDefault THEN ClearDefaults(registry_configs)
                          ELSE registry_configs
               conflict == \E r \in registry_configs : r.name = name
           IN  /\ registrySeq <= MaxRegistryId
               /\ RegistryServed
               /\ registry_configs' =
                      IF conflict THEN cleared
                      ELSE cleared \cup {[id |-> registrySeq, name |-> name,
                                           is_default |-> isDefault]}
               /\ registrySeq' = IF conflict THEN registrySeq ELSE registrySeq + 1
               /\ resp' = [op |-> "createRegistryConfig",
                           status |-> IF conflict THEN 500 ELSE 201,
                           id |-> IF conflict THEN 0 ELSE registrySeq,
                           before |-> registry_configs]

\* PUT /registry-configs/:id: 400 when the body does not bind; the defaults
\* of the other rows are cleared before the update when the config is to be
\* the default, and stay cleared when the update fails on UNIQUE(name); an
\* id of no row updates nothing and answers 200
updateRegistryConfig ==
    \/ \E id \in RegistryIds :
           /\ RegistryServed
           /\ resp' = [op |-> "updateRegistryConfig", status |-> 400, id |-> id,
                       before |-> registry_configs]
           /\ UNCHANGED <<registry_configs, registrySeq>>
    \/ \E id \in RegistryIds, name \in RegistryNames, isDefault \in BOOLEAN :
           LET cleared == IF isDefault THEN ClearOtherDefaults(registry_configs, id)
                          ELSE registry_configs
               conflict == /\ \E r \in registry_configs : r.id = id
                           /\ \E r \in registry_configs : r.id # id /\ r.name = name
           IN  /\ RegistryServed
               /\ registry_configs' =
                      IF conflict THEN cleared
                      ELSE {IF r.id = id
                            THEN [r EXCEPT !.name = name, !.is_default = isDefault]
                            ELSE r : r \in cleared}
               /\ UNCHANGED registrySeq
               /\ resp' = [op |-> "updateRegistryConfig",
                           status |-> IF conflict THEN 500 ELSE 200,
                           id |-> id, before |-> registry_configs]

\* DELETE /registry-configs/:id
deleteRegistryConfig ==
    \E id \in RegistryIds :
        /\ RegistryServed
        /\ registry_configs' = {r \in registry_configs : r.id # id}
        /\ UNCHANGED registrySeq
        /\ resp' = [op |-> "deleteRegistryConfig", status |-> 200, id |-> id,
                    before |-> registry_configs]

\* the statement of setDefaultRegistry that fails, if any
SetDefaultFailures == {"none", "clear", "set"}

\* POST /registry-configs/:id/set-default: clear every default, then set
\* the default of row id; either statement failing answers 500 and leaves
\* what the statements before it did
setDefaultRegistry ==
    \E id \in RegistryIds, failure \in SetDefaultFailures :
        LET cleared == ClearDefaults(registry_configs)
        IN  /\ RegistryServed
            /\ registry_configs' =
                   CASE failure = "clear" -> registry_configs
                     [] failure = "set" -> cleared
                     [] OTHER -> {IF r.id = id THEN [r EXCEPT !.is_default = TRUE] ELSE r :
                                     r \in cleared}
            /\ UNCHANGED registrySeq
            /\ resp' = [op |-> "setDefaultRegistry",
                        status |-> IF failure = "none" THEN 200 ELSE 500,
                        id |-> id, before |-> registry_configs]

(* ------------------------- concurrent requests ------------------------- *)

\* gin serves every request on a goroutine of its own and the handlers open
\* no transaction: the statements of two requests interleave.  A worker is
\* such a goroutine; pc names the statement it runs next.
Workers == {1, 2}
Idle == [pc |-> "idle"]

\* the charts two clients fetch at the same time
RacingInfos == {ChartInfo("a", v, <<>>, "nil") : v \in Versions}

\* switchChartVersion up to and with its first UPDATE
SwitchClear(w, names) ==
    \E name \in names, version \in Versions :
        /\ inflight[w] = Idle
        /\ Commit(SetLatestVersion(DB, name))
        /\ UNCHANGED <<registry_configs, registrySeq>>
        /\ inflight' = [inflight EXCEPT ![w] =
                           [pc |-> "SetVersionAsLatest", name |-> name, version |-> version,
                            before |-> {c \in charts : c.name = name}]]
        /\ UNCHANGED resp

\* switchChartVersion from its second UPDATE on
SwitchSet(w) ==
    /\ inflight[w].pc = "SetVersionAsLatest"
    /\ Commit(SetVersionAsLatest(DB, inflight[w].name, inflight[w].version))
    /\ UNCHANGED <<registry_configs, registrySeq>>
    /\ inflight' = [inflight EXCEPT ![w] = Idle]
    /\ resp' = [op |-> "switchChartVersion", status |-> 200, name |-> inflight[w].name,
                version |-> inflight[w].version, failed |-> "none",
                before |-> inflight[w].before]

\* fetchChart up to and with the GetChart of storeChartInDB; existing is
\* what the query returned
StoreLookup(w, infos) ==
    \E info \in infos :
        /\ inflight[w] = Idle
        /\ UNCHANGED <<registry_configs, registrySeq>>
        /\ inflight' = [inflight EXCEPT ![w] =
                           [pc |-> "CreateChart", info |-> info,
                            existing |-> GetChart(DB, info.name)]]
        /\ UNCHANGED <<charts, dependencies, apps, chartSeq, appSeq, resp>>

\* fetchChart from the branch on the GetChart result on
StoreWrite(w) ==
    /\ inflight[w].pc = "CreateChart"
    /\ LET info == inflight[w].info
           existing == inflight[w].existing
           conflict == existing = {} /\ CreateChartConflict(DB, info.name, info.version)
       IN  /\ existing = {} /\ ~conflict => WithinBounds(DB, TRUE, <<>>)
           /\ IF conflict
              THEN UNCHANGED <<charts, dependencies, apps, chartSeq, appSeq>>
              ELSE IF existing = {}
                   THEN Commit(StoreNew(DB, info, <<>>, ReqURL, <<>>))
                   ELSE \E row \in existing : Commit(StoreExisting(DB, row, info, <<>>, <<>>))
           /\ resp' = [op |-> "fetchChart", status |-> 200, chart |-> info, apps |-> <<>>,
                       stored |-> ~conflict, reused |-> existing # {}]
    /\ UNCHANGED <<registry_configs, registrySeq>>
    /\ inflight' = [inflight EXCEPT ![w] = Idle]

\* GET /charts/:name; midSwitch tells whether the query ran between the two
\* UPDATEs of a switch of that name from a current version to a stored one
getStoredChartInfo(names) ==
    \E name \in names :
        /\ resp' = [op |-> "getStoredChartInfo", name |-> name,
                    status |-> IF GetChart(DB, name) = {} THEN 404 ELSE 200,
                    midSwitch |-> \E w \in Workers :
                                      /\ inflight[w].pc = "SetVersionAsLatest"
                                      /\ inflight[w].name = name
                                      /\ \E c \in inflight[w].before : c.is_latest
                                      /\ \E c \in inflight[w].before :
                                             c.version = inflight[w].version]
        /\ UNCHANGED <<charts, dependencies, apps, chartSeq, appSeq, inflight,
                       registry_configs, registrySeq>>

(* --------------------------- specifications ---------------------------- *)

Init ==
    /\ charts = {}
    /\ dependencies = {}
    /\ apps = {}
    /\ chartSeq = 1
    /\ appSeq = 1
    /\ resp = [op |-> "none", status |-> 0]
    /\ inflight = [w \in Workers |-> Idle]
    /\ registry_configs = SeedConfigs
    /\ registrySeq = 2

\* the catalog: fetch-or-update, version switch and the two deletes
Next ==
    \/ fetchChart(StoreInfos)
    \/ switchChartVersion(StoreNames, NoFailure)
    \/ deleteChart(StoreNames)
    \/ deleteChartVersion(StoreNames)

Spec == Init /\ [][Next]_vars

\* the resolvers over a catalog filled by fetch-or-update
NextResolve ==
    \/ fetchChart(ParentInfos)
    \/ switchChartVersion({"b"}, NoFailure)
    \/ fetchChartDependenciesAdvanced({"a"}, Answers)
    \/ fetchChartDependencies({"a"}, Answers)

SpecResolve == Init /\ [][NextResolve]_vars

\* resolver requests when the charts the registries answer with have
\* dependencies of their own
NextWalk ==
    \/ fetchChart(ParentInfos)
    \/ deleteChart({"b", "c"})
    \/ fetchChartDependenciesAdvanced({"a"}, WalkAnswers)
    \/ fetchChartDependencies({"a"}, WalkAnswers)

SpecWalk == Init /\ [][NextWalk]_vars

\* every request that writes rows: fetches, switches, deletes and both
\* resolvers
NextWrites ==
    \/ fetchChart(ParentInfos)
    \/ switchChartVersion({"a"}, NoFailure)
    \/ deleteChart({"a", "b"})
    \/ deleteChartVersion({"a"})
    \/ fetchChartDependenciesAdvanced({"a"}, Answers)
    \/ fetchChartDependencies({"a"}, Answers)

SpecWrites == Init /\ [][NextWrites]_vars

\* the requests for one name among the rows of two names
NextFrame ==
    \/ fetchChart(FrameInfos)
    \/ switchChartVersion(StoreNames, NoFailure)
    \/ deleteChart(StoreNames)
    \/ deleteChartVersion(StoreNames)

SpecFrame == Init /\ [][NextFrame]_vars

\* the registry config requests, one at a time
NextRegistry ==
    \/ createRegistryConfig
    \/ updateRegistryConfig
    \/ deleteRegistryConfig
    \/ setDefaultRegistry

SpecRegistry == Init /\ [][NextRegistry]_vars

\* one chart fetched, switched and deleted by version while the database
\* may fail a statement of the switch
NextSwitch ==
    \/ fetchChart(SwitchInfos)
    \/ switchChartVersion({"a"}, SwitchFailures)
    \/ deleteChartVersion({"a"})

SpecSwitch == Init /\ [][NextSwitch]_vars

\* fetches of a chart whose dependency entries have their tags fetched
NextEnrich ==
    \/ fetchChart(EnrichInfos)
    \/ deleteChart({"a"})
SpecEnrich == Init /\ [][NextEnrich]_vars

\* fetches of a chart whose manifest changes between fetches
NextFacts ==
    \/ fetchChart(FactInfos)
    \/ switchChartVersion({"a"}, NoFailure)
    \/ deleteChartVersion({"a"})
SpecFacts == Init /\ [][NextFacts]_vars

\* the extractor over the manifests chartUtils.Template may have rendered
InitImages ==
    /\ charts = {}
    /\ dependencies = {}
    /\ apps = {}
    /\ chartSeq = 1
    /\ appSeq = 1
    /\ resp \in {[op |-> "Template", manifest |-> m] : m \in ManifestsOver(ImageLines)}
    /\ inflight = [w \in Workers |-> Idle]
    /\ registry_configs = SeedConfigs
    /\ registrySeq = 2

SpecImages == InitImages /\ [][AttachManifestMetadata]_vars

\* SafeParseChart on every manifest of at most MaxLines lines of TagLines
InitTags ==
    /\ charts = {}
    /\ dependencies = {}
    /\ apps = {}
    /\ chartSeq = 1
    /\ appSeq = 1
    /\ resp \in {[op |-> "Template", manifest |-> m] : m \in ManifestsOver(TagLines)}
    /\ inflight = [w \in Workers |-> Idle]
    /\ registry_configs = SeedConfigs
    /\ registrySeq = 2

SpecTags == InitTags /\ [][AttachManifestMetadata]_vars

\* SafeParseChart on every manifest of at most MaxLines lines of GateLines
InitGates ==
    /\ charts = {}
    /\ dependencies = {}
    /\ apps = {}
    /\ chartSeq = 1
    /\ appSeq = 1
    /\ resp \in {[op |-> "Template", manifest |-> m] : m \in ManifestsOver(GateLines)}
    /\ inflight = [w \in Workers |-> Idle]
    /\ registry_configs = SeedConfigs
    /\ registrySeq = 2

SpecGates == InitGates /\ [][AttachManifestMetadata]_vars

\* fetches, switches and reads of one name, statement by statement
NextRacing ==
    \E w \in Workers :
        \/ StoreLookup(w, RacingInfos)
        \/ StoreWrite(w)
        \/ SwitchClear(w, {"a"})
        \/ SwitchSet(w)
        \/ getStoredChartInfo({"a"})

SpecRacing == Init /\ [][NextRacing]_vars

(* ------------------------------- claims -------------------------------- *)

RowsOf(n) == {c \in charts : c.name = n}
CurrentOf(n) == {c \in charts : c.name = n /\ c.is_latest}
DepsOf(id) == {e \in dependencies : e.chart_id = id}
AppsOf(id) == {p \in apps : p.chart_id = id}

\* the dependencies row an entry of a Chart.yaml dependency list becomes
EdgeOf(id, dep) ==
    [chart_id |-> id, dependency_name |-> dep.name,
     dependency_version |-> dep.version, repository |-> dep.repository]

FetchStored == resp.op = "fetchChart" /\ resp.status = 200 /\ resp.stored

\* C1: after any sequence of fetch-or-update, version-switch, delete-bundle
\* and delete-version requests run one at a time, every chart name has at
\* most one row with is_latest = TRUE.
C1_AtMostOneCurrent ==
    \A n \in Names : Cardinality(CurrentOf(n)) <= 1

\* C1 witness: a name with two stored versions, one of them current, after
\* a version switch.
C1_Witness ==
    /\ resp.op = "switchChartVersion"
    /\ \E c1, c2 \in RowsOf(resp.name) : c1.id # c2.id /\ c1.is_latest /\ ~c2.is_latest

\* C2: after switchVersion(name, v) for a version v that has a stored row,
\* exactly one row of the name is current and it is the row of version v.
C2_SwitchSetsTarget ==
    (/\ resp.op = "switchChartVersion"
     /\ resp.status = 200
     /\ \E c \in resp.before : c.version = resp.version)
        => /\ Cardinality(CurrentOf(resp.name)) = 1
           /\ \A c \in RowsOf(resp.name) : c.is_latest <=> c.version = resp.version

\* C2 witness: a switch to a stored version that was not the current one,
\* away from another version that was.
C2_Witness ==
    /\ resp.op = "switchChartVersion"
    /\ \E c \in resp.before : c.version = resp.version /\ ~c.is_latest
    /\ \E c \in resp.before : c.version # resp.version /\ c.is_latest

C4_AppsAreTheEntries ==
    (FetchStored /\ resp.reused)
        => /\ Cardinality(AppsOf(resp.chart_id)) = Len(resp.apps)
           /\ {p.name : p \in AppsOf(resp.chart_id)} = {resp.apps[i] : i \in 1..Len(resp.apps)}

\* C5: fetch-or-update of a name that has a current row inserts no charts
\* row and leaves that row's id, version and is_latest as they were, also
\* when the fetched chart declares another version.
C5_ReuseKeepsRow ==
    [][(/\ resp'.op = "fetchChart"
        /\ resp'.status = 200
        /\ CurrentOf(resp'.chart.name) # {})
           => /\ {c.id : c \in charts'} = {c.id : c \in charts}
              /\ chartSeq' = chartSeq
              /\ \A c \in CurrentOf(resp'.chart.name) :
                     \E k \in charts' : /\ k.id = c.id
                                        /\ k.name = c.name
                                        /\ k.version = c.version
                                        /\ k.is_latest = c.is_latest]_vars

\* C5 witness: a re-fetch that declared another version than the row it
\* reused.
C5_Witness ==
    /\ FetchStored /\ resp.reused
    /\ \E c \in charts : c.id = resp.chart_id /\ c.version # resp.chart.version

Resolvers == {"fetchChartDependenciesAdvanced", "fetchChartDependencies"}
Resolved == resp.op \in Resolvers /\ resp.status = 200

\* C8: a resolver skips an edge (no location tried, nothing stored, no
\* error) whenever some charts row of the edge's dependency name is stored,
\* whatever its version and whether or not it is the current one.
C8_SkipsAnyStoredName ==
    Resolved
        => \A i \in 1..Len(resp.trace) :
               resp.trace[i].known
                   => /\ resp.trace[i].tried = <<>>
                      /\ resp.trace[i].outcome = "exists"
                      /\ \A j \in 1..Len(resp.errors) : resp.errors[j].dep # resp.trace[i].dep

\* C9: resolving a chart whose every edge names a stored chart returns no
\* fetched chart and no error, calls the fetch adapter zero times and
\* leaves the catalog as it was.
C9_AllStoredIsNoOp ==
    [][(/\ resp'.op \in Resolvers
        /\ resp'.status = 200
        /\ \A e \in FetchChartDependencies(DB, resp'.name) :
               \E c \in charts : c.name = e.dependency_name)
           => /\ resp'.fetched_charts = <<>>
              /\ resp'.errors = <<>>
              /\ resp'.calls = 0
              /\ UNCHANGED <<charts, dependencies, apps, chartSeq, appSeq>>]_vars

\* C10: when every location of an edge fails, the dependency is in the
\* error list and not in the fetched list, nothing is stored for it, and
\* the edges after it are still processed.
C10_ExhaustedIsReported ==
    Resolved
        => /\ Len(resp.trace) = resp.total_dependencies
           /\ \A i \in 1..Len(resp.trace) :
                  resp.trace[i].outcome = "exhausted"
                      => /\ \E j \in 1..Len(resp.errors) : resp.errors[j].dep = resp.trace[i].dep
                         /\ \A j \in 1..Len(resp.fetched_charts) :
                                resp.fetched_charts[j].name # resp.trace[i].dep
                         /\ resp.trace[i].url = NoURL

\* C11: when a resolver fetches a dependency and stores it as a new charts
\* row, the chart_url of that row is the location whose fetch succeeded,
\* at whatever position of the registry list that location stands.
C11_StoredURLIsTheHit ==
    [][(resp'.op \in Resolvers /\ resp'.status = 200)
           => \A c \in charts' :
                  (\A o \in charts : o.id # c.id)
                      => \E i \in 1..Len(resp'.trace) :
                             /\ resp'.trace[i].outcome = "stored"
                             /\ c.chart_url = resp'.trace[i].tried[Len(resp'.trace[i].tried)]]_vars

\* C12: a resolve request for a stored chart always ends in a 200 response
\* that carries the per-dependency errors: every edge whose locations all
\* failed, and every edge whose store write failed, is in the error list of
\* that response instead of failing the request.
C12_FailuresAreEmbedded ==
    (resp.op \in Resolvers /\ resp.status # 404)
        => /\ resp.status = 200
           /\ \A i \in 1..Len(resp.trace) :
                  resp.trace[i].outcome \in {"exhausted", "storeFailed"}
                      => \E j \in 1..Len(resp.errors) : resp.errors[j].dep = resp.trace[i].dep

\* C13: when the render step returns an error, panics or returns no
\* release, the fetch-or-update request ends with a failure response (the
\* panic is recovered into an error value) and every charts, dependencies
\* and apps row is as it was.
C13_RenderFailureWritesNothing ==
    [][(resp'.op = "fetchChart" /\ resp'.status = 400)
           => /\ resp'.render \in RenderFailures
              /\ UNCHANGED <<charts, dependencies, apps, chartSeq, appSeq>>]_vars

\* C13 witness: a render that panicked while charts with edges and
\* applications are stored.
C13_Witness ==
    /\ resp.op = "fetchChart"
    /\ resp.status = 400
    /\ resp.render = "panic"
    /\ charts # {} /\ dependencies # {} /\ apps # {}

\* C14: a failure of the charts row write of a fetch-or-update request is
\* surfaced to the caller as a failure: the request does not end in a
\* success response when the row was not written.
C14_StoreFailureIsSurfaced ==
    (resp.op = "fetchChart" /\ resp.status = 200)
        => /\ resp.stored
           /\ \E c \in charts : c.id = resp.chart_id /\ c.name = resp.chart.name

\* the image references of a manifest, quotes trimmed, in line order
ImageRefs(manifest) ==
    LET at == {i \in 1..Len(manifest) : manifest[i].key = "image"}
        nth(k) == CHOOSE i \in at : Cardinality({j \in at : j < i}) = k - 1
    IN  [k \in 1..Cardinality(at) |-> manifest[nth(k)].value]

\* where x stands first in the sequence refs
FirstAt(refs, x) == CHOOSE i \in 1..Len(refs) : refs[i] = x /\ \A j \in 1..(i - 1) : refs[j] # x

Extracted == resp.op = "SafeParseChart" /\ resp.attached

\* C15: for every manifest, ContainerImages holds no two equal entries and
\* no empty one, holds exactly the non-empty image references of the
\* manifest, and holds them in the order of their first occurrence.
C15_ImagesAreDistinctInOrder ==
    Extracted
        => LET images == resp.ManifestMetadata.ContainerImages
               refs == ImageRefs(resp.manifest)
           IN  /\ \A i, j \in 1..Len(images) : images[i] = images[j] => i = j
               /\ \A i \in 1..Len(images) : images[i] # <<>>
               /\ {images[i] : i \in 1..Len(images)} = {refs[i] : i \in 1..Len(refs)} \ {<<>>}
               /\ \A i, j \in 1..Len(images) :
                      i < j => FirstAt(refs, images[i]) < FirstAt(refs, images[j])

\* C15 witness: a manifest that names one image bare in one document and
\* quoted in the next, an empty reference and another image, of which two
\* entries are kept.
C15_Witness ==
    /\ Extracted
    /\ \E i, j, k \in 1..Len(resp.manifest) :
           /\ i < j /\ j < k
           /\ resp.manifest[i].key = "image" /\ ~resp.manifest[i].quoted
           /\ resp.manifest[j] = Boundary
           /\ resp.manifest[k] = [resp.manifest[i] EXCEPT !.quoted = TRUE]
    /\ \E i \in 1..Len(resp.manifest) : resp.manifest[i] = Line("image", <<>>, FALSE)
    /\ Len(resp.ManifestMetadata.ContainerImages) = 1

\* C16: the version switch clears is_latest on every row of the name
\* before it sets it on the target row: when the set statement fails after
\* the clear statement ran, the request answers with an error, no row of
\* the name is current, and nothing else about the rows has changed (the
\* clear is not rolled back).
C16_ClearBeforeSet ==
    (resp.op = "switchChartVersion" /\ resp.failed = "SetVersionAsLatest")
        => /\ resp.status = 500
           /\ CurrentOf(resp.name) = {}
           /\ RowsOf(resp.name) = {[c EXCEPT !.is_latest = FALSE] : c \in resp.before}

\* C16 witness: the set statement failed on a switch to a stored version
\* of a name that had a current version, and the name has none now.
C16_Witness ==
    /\ resp.op = "switchChartVersion"
    /\ resp.failed = "SetVersionAsLatest"
    /\ \E c \in resp.before : c.is_latest
    /\ \E c \in resp.before : c.version = resp.version
    /\ RowsOf(resp.name) # {}
    /\ CurrentOf(resp.name) = {}

\* C17: the version switch is atomic for the other requests: a read of the
\* name that runs while a switch from a current version to a stored version
\* is under way finds a current version, never the state between the clear
\* and the set in which the name has none.
C17_SwitchIsAtomic ==
    (resp.op = "getStoredChartInfo" /\ resp.midSwitch) => resp.status = 200

\* C18: whatever way the statements of concurrent fetch-or-update and
\* switch requests on one name interleave, no two rows of the name are
\* current.
C18_NoTwoCurrentWhenRacing ==
    \A c1, c2 \in charts : (c1.name = c2.name /\ c1.is_latest /\ c2.is_latest) => c1.id = c2.id

\* C19: fetch-or-update looks the chart up by name only: whenever some row
\* of the name is stored, also when none of them is current, it takes a
\* stored row as its target and inserts no charts row.
C19_AnyRowIsTheTarget ==
    [][(/\ resp'.op = "fetchChart"
        /\ resp'.status = 200
        /\ RowsOf(resp'.chart.name) # {})
           => /\ {c.id : c \in charts'} = {c.id : c \in charts}
              /\ resp'.stored
              /\ resp'.reused]_vars

\* C20: for each edge it does not skip, a resolver tries the locations one
\* after another with the edge's own repository, when it has one, first and
\* the registry templates after it, and stops at the first location whose
\* fetch succeeds: no location after that one is fetched.
C20_HintFirstStopAtFirstHit ==
    Resolved
        => \A i \in 1..Len(resp.trace) :
               LET t == resp.trace[i]
                   templates == <<Bitnami(t.dep), K8s(t.dep), Ghcr(t.dep)>>
                   all == (IF t.hint # NoURL THEN <<t.hint>> ELSE <<>>) \o templates
               IN  t.tried # <<>>
                       => /\ Len(t.tried) <= Len(all)
                          /\ t.tried = SubSeq(all, 1, Len(t.tried))
                          /\ t.hit # 0 => Len(t.tried) = t.hit

\* the entries of the chart of the last fetch that are the first of their
\* dependency name
FirstEntries ==
    {k \in 1..Len(resp.chart.deps) :
        \A j \in 1..(k - 1) : resp.chart.deps[j].name # resp.chart.deps[k].name}

C22_StoredFactsAreTheFetched ==
    (FetchStored /\ resp.chart.meta # "nil")
        => \A c \in charts : c.id = resp.chart_id => c.meta = resp.chart.meta

\* the tags, in order, of the image references of the manifest that hold a
\* colon
TagsOf(manifest) ==
    LET refs == ImageRefs(manifest)
        at == {i \in 1..Len(refs) : Len(refs[i]) >= 2}
        nth(k) == CHOOSE i \in at : Cardinality({j \in at : j < i}) = k - 1
    IN  [k \in 1..Cardinality(at) |-> refs[nth(k)][Len(refs[nth(k)])]]

\* the first tag of the sequence that is in the set, "N/A" if there is none
FirstTagIn(tags, S) ==
    IF \A i \in 1..Len(tags) : tags[i] \notin S THEN "N/A"
    ELSE tags[CHOOSE i \in 1..Len(tags) : tags[i] \in S /\ \A j \in 1..(i - 1) : tags[j] \notin S]

\* the tags that mark a canary once lower-cased
CanaryTags == {"canary", "RC-Canary"}
\* the tags of TagLines
AllTags == {"1", "2", "canary", "RC-Canary", "N/A"}

\* C23: over the whole manifest, ImageTag is the tag of the first image
\* reference that holds a colon and CanaryTag is the tag of the first image
\* reference whose lower-cased tag contains "canary"; each is "N/A" when
\* there is no such reference.
C23_FirstTagWins ==
    Extracted
        => /\ resp.ManifestMetadata.ImageTag = FirstTagIn(TagsOf(resp.manifest), AllTags)
           /\ resp.ManifestMetadata.CanaryTag = FirstTagIn(TagsOf(resp.manifest), CanaryTags)

\* C23 amended: over the whole manifest, ImageTag is the tag of the first
\* image reference that holds a colon and whose tag is not the text "N/A",
\* and CanaryTag is the tag of the first image reference whose lower-cased
\* tag contains "canary"; each is "N/A" when there is no such reference.
C23_FirstTagOtherThanDefaultWins ==
    Extracted
        => /\ resp.ManifestMetadata.ImageTag
                  = FirstTagIn(TagsOf(resp.manifest), AllTags \ {"N/A"})
           /\ resp.ManifestMetadata.CanaryTag = FirstTagIn(TagsOf(resp.manifest), CanaryTags)

\* C23 witness: a manifest of two documents with two different tags and two
\* different canary tags, of which the first of each kind is kept, the
\* canary tag not being the first tag.
C23_Witness ==
    /\ Extracted
    /\ \E i \in 1..Len(resp.manifest) : resp.manifest[i] = Boundary
    /\ LET tags == TagsOf(resp.manifest)
       IN  /\ Len(tags) = 3
           /\ tags[1] \notin CanaryTags /\ tags[1] # "N/A"
           /\ tags[2] \in CanaryTags /\ tags[3] \in CanaryTags /\ tags[2] # tags[3]
           /\ resp.ManifestMetadata.ImageTag = tags[1]
           /\ resp.ManifestMetadata.CanaryTag = tags[2]

\* the lines of the manifest that stand before line i in the document of
\* line i
EarlierInDocument(manifest, i) ==
    {j \in 1..(i - 1) : \A b \in j..(i - 1) : manifest[b] # Boundary}

\* the last kind: line before line i in its document says k, unquoted
LastKindIs(manifest, i, k) ==
    LET kinds == {j \in EarlierInDocument(manifest, i) : manifest[j].key = "kind"}
    IN  /\ kinds # {}
        /\ \A j \in kinds :
               (\A l \in kinds : l <= j) => manifest[j] = Line("kind", <<k>>, FALSE)

\* a spec: line stands before line i in its document
SpecSeen(manifest, i) ==
    \E j \in EarlierInDocument(manifest, i) : manifest[j].key = "spec"

\* the values, in order, of the lines at the positions of the set
ValuesAt(manifest, at) ==
    LET nth(k) == CHOOSE i \in at : Cardinality({j \in at : j < i}) = k - 1
    IN  [k \in 1..Cardinality(at) |-> FirstPart(manifest[nth(k)].value)]

\* C24: the flags of the scan start afresh in every document and gate what
\* is extracted: IngressPaths holds the value of a path: line only if the
\* last kind: line before it in the same document says Ingress and the value
\* is neither empty nor "/", ServicePorts holds the value of a port: line
\* only if the last kind: line before it in the same document says Service
\* and a spec: line stands before it in the same document; a kind: or spec:
\* line of an earlier document enables nothing.  The lists are exactly those
\* values, in the order of their lines.
C24_FlagsGatePerDocument ==
    Extracted
        => LET m == resp.manifest
               paths == {i \in 1..Len(m) : /\ m[i].key = "path"
                                            /\ LastKindIs(m, i, "Ingress")
                                            /\ FirstPart(m[i].value) \notin {"", "/"}}
               ports == {i \in 1..Len(m) : /\ m[i].key = "port"
                                            /\ LastKindIs(m, i, "Service")
                                            /\ SpecSeen(m, i)
                                            /\ FirstPart(m[i].value) # ""}
           IN  /\ resp.ManifestMetadata.IngressPaths = ValuesAt(m, paths)
               /\ resp.ManifestMetadata.ServicePorts = ValuesAt(m, ports)

\* C24 witness: a path: line after kind: Ingress is extracted and the same
\* line in the next document, which has no kind: line, is not.
C24_Witness ==
    /\ Extracted
    /\ resp.manifest = <<Line("kind", <<"Ingress">>, FALSE), Line("path", <<"/api">>, FALSE),
                         Boundary, Line("path", <<"/api">>, FALSE)>>
    /\ resp.ManifestMetadata.IngressPaths = <<"/api">>

\* the name the request of a response was for; a fetch whose chart did not
\* render is for no name
RequestName(r) ==
    IF r.op = "fetchChart" THEN (IF r.status = 200 THEN r.chart.name ELSE "")
    ELSE r.name

\* the dependencies and apps rows of the charts rows of name n
ChildrenOf(n) == Children(RowsOf(n))

\* C25: a fetch-or-update, a version switch, a chart delete or a version
\* delete for one name leaves the charts rows of every other name, and the
\* dependencies and apps rows of those rows, as they were.
C25_OtherNamesUntouched ==
    [][\A n \in Names :
           n # RequestName(resp')
               => /\ RowsOf(n)' = RowsOf(n)
                  /\ ChildrenOf(n)' = ChildrenOf(n)]_vars

\* C25 witness: chart a was deleted with its children while chart b, which
\* has an edge that names a, keeps its row and that edge.
C25_Witness ==
    /\ resp.op = "deleteChart" /\ resp.name = "a"
    /\ resp.gone # {} /\ resp.cascaded > 0
    /\ \E c \in RowsOf("b") : \E e \in DepsOf(c.id) : e.dependency_name = "a"

\* the registries a resolver has for the edge of a trace entry
CandidatesOf(op, entry) ==
    LET e == [dependency_name |-> entry.dep, repository |-> entry.hint]
    IN  IF op = "fetchChartDependenciesAdvanced" THEN AdvancedRegistries(e)
        ELSE SimpleRegistries(e)

\* the sum of the numbers i..Len(counts) of a sequence
RECURSIVE SumFrom(_, _)
SumFrom(counts, i) ==
    IF i > Len(counts) THEN 0 ELSE counts[i] + SumFrom(counts, i + 1)

\* the most dependency entries with a repository a chart of WalkAnswers has
MaxEnrichment == 2

\* every resolver request is one pass over the direct edges of the current
\* row of its chart, and hands the registries of an edge to TryFetchChart
\* in order, each at most once
SinglePass ==
    /\ Len(resp.trace) = resp.total_dependencies
    /\ resp.total_dependencies = Cardinality(FetchChartDependencies(DB, resp.name))
    /\ {x.dep : x \in {resp.trace[i] : i \in 1..Len(resp.trace)}}
           = {e.dependency_name : e \in FetchChartDependencies(DB, resp.name)}
    /\ \A i \in 1..Len(resp.trace) :
           LET regs == CandidatesOf(resp.op, resp.trace[i])
               tried == resp.trace[i].tried
           IN  Len(tried) <= Len(regs) /\ tried = SubSeq(regs, 1, Len(tried))

\* C26: a resolver request is one pass over the direct edges of the current
\* row of its chart, hands each registry of an edge to TryFetchChart at most
\* once, and calls TryFetchChart no more often than the edges have
\* registries, also when the fetched charts depend on the chart resolved or
\* every registry fails.
C26_AttemptsWithinEdgesTimesCandidates ==
    Resolved
        => /\ SinglePass
           /\ resp.calls <= SumFrom([i \in 1..Len(resp.trace) |->
                                          Len(CandidatesOf(resp.op, resp.trace[i]))], 1)

\* C26 amended: a resolver request is one pass over the direct edges of the
\* current row of its chart and hands each registry of an edge to
\* TryFetchChart at most once; each registry that answered is followed by
\* at most one store, which calls TryFetchChart once more for every
\* dependency entry of the fetched chart that has a repository.  The calls
\* are bounded by the registries tried times one plus the entries a fetched
\* chart can have.
C26_AttemptsAreBounded ==
    Resolved
        => /\ SinglePass
           /\ resp.calls <= SumFrom([i \in 1..Len(resp.trace) |->
                                          Len(resp.trace[i].tried) * (1 + MaxEnrichment)], 1)

\* C26 witness: a request that found every registry of one edge failing,
\* and one whose fetched chart depends on the chart that was resolved.
C26_Witness ==
    /\ Resolved
    /\ \E i \in 1..Len(resp.trace) : resp.trace[i].outcome = "exhausted"
    /\ \E i \in 1..Len(resp.fetched_charts) :
           \E k \in 1..Len(resp.fetched_charts[i].deps) :
               resp.fetched_charts[i].deps[k].name = resp.name

C28_FetchedEdgeIsStoredUnderItsName ==
    Resolved
        => \A i \in 1..Len(resp.trace) :
               resp.trace[i].outcome = "stored" => GetChart(DB, resp.trace[i].dep) # {}

\* C29: a version switch whose target version has no stored row leaves the
\* current version of the name as it was; it never answers with success
\* while no row of the name is current any more.
C29_MissingTargetKeepsCurrent ==
    (/\ resp.op = "switchChartVersion"
     /\ \A c \in resp.before : c.version # resp.version)
        => /\ CurrentOf(resp.name) = {c \in resp.before : c.is_latest}
           /\ (resp.status = 200 /\ resp.before # {}) => CurrentOf(resp.name) # {}

\* the registry configs that are the default
Defaults == {r \in registry_configs : r.is_default}

\* C30: after any sequence of registry config requests served one at a
\* time at most one registry config is the default, and after a successful
\* setDefaultRegistry for the id of a stored config exactly that config is
\* the default.
C30_AtMostOneDefault ==
    /\ Cardinality(Defaults) <= 1
    /\ (/\ resp.op = "setDefaultRegistry" /\ resp.status = 200
        /\ \E r \in resp.before : r.id = resp.id)
           => {r.id : r \in Defaults} = {resp.id}

\* C30 witness: of three stored configs the default moved from one to
\* another by setDefaultRegistry.
C30_Witness ==
    /\ resp.op = "setDefaultRegistry" /\ resp.status = 200
    /\ Cardinality(resp.before) = 3
    /\ \E r \in resp.before : r.is_default /\ r.id # resp.id
    /\ {r.id : r \in Defaults} = {resp.id}

====
